---- MODULE Spec2Model ----
(***************************************************************************)
(* Funding-carry controller (walker1992/hyper-fundingfee).                 *)
(*                                                                         *)
(* Quantities are integers: sizes are counted in base units, prices in     *)
(* ticks, notionals in tick*unit, time in seconds.  An optional value   *)
(* (Python None) is the empty sequence, a present value x is <<x>>.        *)
(***************************************************************************)
EXTENDS Integers, Sequences, FiniteSets, TLC

None == << >>
Some(x) == << x >>
IsSome(o) == Len(o) > 0
Get(o) == o[1]

Max(a, b) == IF a >= b THEN a ELSE b
Min(a, b) == IF a <= b THEN a ELSE b

(***************************************************************************)
(* Configuration of the modelled run (StrategyConfig / AppConfig).         *)
(***************************************************************************)
EnterThresholdApr == 2
ExitThresholdApr == 0
TargetUsdNotional == 10
HedgeRatio == 1
PriceOffsetTicks == 1
PostOnly == TRUE
CfgTif == "Gtc"
SpotSymbol == "ASTER/USDT"
PerpSymbol == "ASTER"
BaseCcy == "ASTER"
QuoteCcy == "USDT"
SpotTick == 1
PerpTick == 1
SpotSizeStep == 1
PerpSizeStep == 1

\* Largest funding rate, order id and balance figure the venue reports here.
MaxApr == 2
MaxOid == 2

(***************************************************************************)
(* Venue answers.  An order answer carries one status, as the venue gives  *)
(* one status per order: resting (with its oid), filled (size, average     *)
(* price), error; "nostatus" is an answer with an empty status list and    *)
(* "unparsable" one whose "response" member is not a map (the venue's      *)
(* top-level {"status": "err", "response": "<text>"}), on which the        *)
(* status lookup raises.                                                   *)
(***************************************************************************)
Resting(oid) == [kind |-> "resting", oid |-> oid, sz |-> 0, px |-> 0]
Filled(sz, px) == [kind |-> "filled", oid |-> 0, sz |-> sz, px |-> px]
ErrorStatus == [kind |-> "error", oid |-> 0, sz |-> 0, px |-> 0]
NoStatus == [kind |-> "nostatus", oid |-> 0, sz |-> 0, px |-> 0]
Unparsable == [kind |-> "unparsable", oid |-> 0, sz |-> 0, px |-> 0]

StatusesRaises(resp) == resp.kind = "unparsable"
Statuses(resp) == IF resp.kind \in {"nostatus", "unparsable"} THEN << >> ELSE << resp >>
HasErrorStatus(resp) == \E i \in 1..Len(Statuses(resp)) : Statuses(resp)[i].kind = "error"
HasRestingStatus(resp) == \E i \in 1..Len(Statuses(resp)) : Statuses(resp)[i].kind = "resting"

\* First resting status's oid, if any.
RestingOid(resp) ==
    IF StatusesRaises(resp) \/ ~HasRestingStatus(resp) THEN None
    ELSE Some(Statuses(resp)[CHOOSE i \in 1..Len(Statuses(resp)) :
                  /\ Statuses(resp)[i].kind = "resting"
                  /\ \A j \in 1..(i-1) : Statuses(resp)[j].kind # "resting"].oid)

\* _filled: (usd, sz, avg) of the first filled status; zeros when none or on a raise.
FilledOf(resp) ==
    IF StatusesRaises(resp) \/ ~(\E i \in 1..Len(Statuses(resp)) : Statuses(resp)[i].kind = "filled")
    THEN [usd |-> 0, sz |-> 0, avg |-> 0]
    ELSE LET s == Statuses(resp)[CHOOSE i \in 1..Len(Statuses(resp)) :
                      /\ Statuses(resp)[i].kind = "filled"
                      /\ \A j \in 1..(i-1) : Statuses(resp)[j].kind # "filled"]
         IN [usd |-> s.sz * s.px, sz |-> s.sz, avg |-> s.px]

(***************************************************************************)
(* Order book: best bid and ask of one venue, 0 when that side is empty.   *)
(***************************************************************************)
BestBidAskFromL2(l2) ==
    [bid |-> IF Len(l2.bids) > 0 THEN l2.bids[1] ELSE 0,
     ask |-> IF Len(l2.asks) > 0 THEN l2.asks[1] ELSE 0]

\* Twice the mid price: (bid + ask) / 2 if ask > 0 else bid.
Mid2(bid, ask) == IF ask > 0 THEN bid + ask ELSE 2 * bid

\* _quantize_size of the rational num/den: floored to a multiple of the venue's step.
QuantizeSize(num, den, step) == ((num \div den) \div step) * step

\* _compute_target_qtys: (0, 0) without a positive mid on both venues.
ComputeTargetQtys(sl2, pl2) ==
    LET s == BestBidAskFromL2(sl2)
        p == BestBidAskFromL2(pl2)
        smid2 == Mid2(s.bid, s.ask)
        pmid2 == Mid2(p.bid, p.ask)
    IN IF smid2 <= 0 \/ pmid2 <= 0 THEN [spot |-> 0, perp |-> 0]
       ELSE [spot |-> QuantizeSize(2 * TargetUsdNotional * HedgeRatio, smid2, SpotSizeStep),
             perp |-> QuantizeSize(2 * TargetUsdNotional * HedgeRatio, smid2, PerpSizeStep)]

\* Mutant of PriceForSide: the offset is applied without the post-only clamp.
PriceForSideUnclamped(l2, tick, side, offset_ticks) ==
    LET b == BestBidAskFromL2(l2)
    IN IF side = "BUY" THEN b.bid + tick * offset_ticks ELSE b.ask - tick * offset_ticks

PriceForSide(l2, tick, side, offset_ticks) ==
    LET b == BestBidAskFromL2(l2)
    IN IF side = "BUY"
       THEN LET price == b.bid + tick * offset_ticks
            IN IF PostOnly /\ b.ask > 0 /\ price >= b.ask THEN Max(b.bid, b.ask - tick) ELSE price
       ELSE LET price == b.ask - tick * offset_ticks
            IN IF PostOnly /\ b.bid > 0 /\ price <= b.bid THEN Min(b.ask, b.bid + tick) ELSE price

(***************************************************************************)
(* Funding: get_funding's "funding" member is absent, unparsable or a rate.*)
(***************************************************************************)
FundingAbsent == [kind |-> "absent", val |-> 0]
FundingBad == [kind |-> "bad", val |-> 0]
FundingRate(r) == [kind |-> "rate", val |-> r]

\* Mutant of ComputeExpectedFundingApr: a missing rate counts as the enter threshold.
ComputeExpectedFundingAprOrEnter(info) ==
    IF info.kind = "rate" THEN Some(info.val) ELSE Some(EnterThresholdApr)

ComputeExpectedFundingApr(info) == IF info.kind = "rate" THEN Some(info.val) ELSE None

(***************************************************************************)
(* Spot balance snapshot: get_balances raises, answers without a balances  *)
(* list, or answers a list of entries (coin, total); an entry's total may  *)
(* be missing.                                                             *)
(***************************************************************************)
BalRaises == [kind |-> "raises", entries |-> << >>]
BalNoList == [kind |-> "nolist", entries |-> << >>]
BalList(es) == [kind |-> "list", entries |-> es]
BalEntry(coin, total) == [coin |-> coin, total |-> total]

HasCoin(bal, ccy) == \E i \in 1..Len(bal.entries) : bal.entries[i].coin = ccy
FirstOf(bal, ccy) ==
    bal.entries[CHOOSE i \in 1..Len(bal.entries) :
        /\ bal.entries[i].coin = ccy
        /\ \A j \in 1..(i-1) : bal.entries[j].coin # ccy]

\* The pre-check's reading of the quote balance: None when reading raises.
ReadQuoteBalance(bal) ==
    IF bal.kind = "raises" THEN None
    ELSE IF bal.kind = "nolist" \/ ~HasCoin(bal, QuoteCcy) THEN Some(0)
    ELSE IF ~IsSome(FirstOf(bal, QuoteCcy).total) THEN None
    ELSE Some(Get(FirstOf(bal, QuoteCcy).total))


\* Mutant of BalancePrecheckOk: any positive balance passes.
BalancePrecheckPositiveOnly(bal, spot_qty, spot_px) ==
    IsSome(ReadQuoteBalance(bal)) /\ Get(ReadQuoteBalance(bal)) > 0

\* TRUE when the pre-check lets the attempt go on.
BalancePrecheckOk(bal, spot_qty, spot_px) ==
    /\ IsSome(ReadQuoteBalance(bal))
    /\ ~(Get(ReadQuoteBalance(bal)) <= 0 \/ spot_qty * spot_px > Get(ReadQuoteBalance(bal)))

(***************************************************************************)
(* Gateway calls, as the gateways see them.                                *)
(***************************************************************************)
PlaceOrder(venue, side, qty, px, tif, reduce_only, post_only) ==
    [venue |-> venue, op |-> "place_order", side |-> side, qty |-> qty, px |-> px,
     tif |-> tif, reduce_only |-> reduce_only, post_only |-> post_only, oid |-> 0]
CancelOrder(venue, oid) ==
    [venue |-> venue, op |-> "cancel_order", side |-> "", qty |-> 0, px |-> 0,
     tif |-> "", reduce_only |-> FALSE, post_only |-> FALSE, oid |-> oid]

\* The spot BUY and perp SELL orders of an entry attempt.
\* Mutant of PerpEntryOrder: the perp leg is a BUY.
PerpEntryOrderAsBuy(qty, px) == PlaceOrder("perp", "BUY", qty, px, CfgTif, FALSE, PostOnly)

SpotEntryOrder(qty, px) == PlaceOrder("spot", "BUY", qty, px, CfgTif, FALSE, PostOnly)
PerpEntryOrder(qty, px) == PlaceOrder("perp", "SELL", qty, px, CfgTif, FALSE, PostOnly)


\* Mutant of RollbackCalls: the rollback forgets the cancel.
RollbackCallsNone(spot_resp) == << >>

\* The rollback of the spot leg after a perp error: cancel the first resting oid.
RollbackCalls(spot_resp) ==
    IF IsSome(RestingOid(spot_resp)) THEN << CancelOrder("spot", Get(RestingOid(spot_resp))) >>
    ELSE << >>


\* Mutant of SpotLegAborts: an error status on the spot leg is not looked at.
SpotLegAbortsOnRaiseOnly(spot_resp) == StatusesRaises(spot_resp)

\* Whether the spot answer ends the attempt before the perp leg.
SpotLegAborts(spot_resp) == StatusesRaises(spot_resp) \/ HasErrorStatus(spot_resp)

\* perp_has_error: an error status, or the status lookup raised.
PerpHasError(perp_resp) == StatusesRaises(perp_resp) \/ HasErrorStatus(perp_resp)

EmptyResult(apr) ==
    [apr |-> apr, entered |-> FALSE, orders |-> << >>,
     spot_filled_usd |-> 0, perp_filled_usd |-> 0,
     spot_filled_sz |-> 0, perp_filled_sz |-> 0,
     spot_filled_avg_px |-> 0, perp_filled_avg_px |-> 0,
     spot_qty |-> 0, perp_qty |-> 0, spot_px |-> 0, perp_px |-> 0,
     spot_oid |-> None, perp_oid |-> None]

(***************************************************************************)
(* FundingCarryStrategy.evaluate_and_place.  funding, sl2, pl2, bal are    *)
(* what the venues report during the attempt; spot_resp and perp_resp are  *)
(* the answers the venues give to the spot and the perp order if placed.   *)
(* The value is the result map and the gateway calls made, in order.       *)
(***************************************************************************)
EvaluateAndPlace(funding, sl2, pl2, bal, spot_resp, perp_resp) ==
    LET apr == ComputeExpectedFundingApr(funding)
        q == ComputeTargetQtys(sl2, pl2)
        spot_px == PriceForSide(sl2, SpotTick, "BUY", PriceOffsetTicks)
        perp_px == PriceForSide(pl2, PerpTick, "SELL", PriceOffsetTicks)
        sized == [EmptyResult(apr) EXCEPT !.spot_qty = q.spot, !.perp_qty = q.perp,
                                          !.spot_px = spot_px, !.perp_px = perp_px]
        sf == FilledOf(spot_resp)
        pf == FilledOf(perp_resp)
        filled == [sized EXCEPT !.orders = << spot_resp, perp_resp >>,
                                !.spot_filled_usd = sf.usd, !.perp_filled_usd = pf.usd,
                                !.spot_filled_sz = sf.sz, !.perp_filled_sz = pf.sz,
                                !.spot_filled_avg_px = sf.avg, !.perp_filled_avg_px = pf.avg]
        spot_call == SpotEntryOrder(q.spot, spot_px)
        perp_call == PerpEntryOrder(q.perp, perp_px)
    IN IF ~IsSome(apr) THEN [result |-> EmptyResult(apr), calls |-> << >>]
       ELSE IF Get(apr) < EnterThresholdApr THEN [result |-> EmptyResult(apr), calls |-> << >>]
       ELSE IF q.spot <= 0 \/ q.perp <= 0 THEN [result |-> EmptyResult(apr), calls |-> << >>]
       ELSE IF ~BalancePrecheckOk(bal, q.spot, spot_px)
            THEN [result |-> EmptyResult(apr), calls |-> << >>]
       ELSE IF SpotLegAborts(spot_resp)
            THEN [result |-> IF StatusesRaises(spot_resp) THEN EmptyResult(apr)
                             ELSE [sized EXCEPT !.orders = << spot_resp >>],
                  calls |-> << spot_call >>]
       ELSE IF PerpHasError(perp_resp)
            THEN [result |-> filled,
                  calls |-> << spot_call, perp_call >> \o RollbackCalls(spot_resp)]
       ELSE [result |-> [filled EXCEPT !.entered = TRUE,
                                       !.spot_oid = RestingOid(spot_resp),
                                       !.perp_oid = RestingOid(perp_resp)],
             calls |-> << spot_call, perp_call >>]

(***************************************************************************)
(* NotionalLimiter.  symbol_to_notional is a dict: a function whose domain *)
(* is the set of symbols that have an entry.                               *)
(***************************************************************************)
PerSymbolCap == 15
PortfolioCap == 20

RECURSIVE SumValues(_)
SumValues(m) ==
    IF DOMAIN m = {} THEN 0
    ELSE LET k == CHOOSE x \in DOMAIN m : TRUE
         IN m[k] + SumValues([y \in DOMAIN m \ {k} |-> m[y]])

DictGet(m, k, dflt) == IF k \in DOMAIN m THEN m[k] ELSE dflt
DictPut(m, k, v) == [x \in DOMAIN m \cup {k} |-> IF x = k THEN v ELSE m[x]]

\* can_add: its answer and the mapping it leaves behind.
CanAdd(m, symbol, delta_usd) ==
    LET cur_symbol == DictGet(m, symbol, 0)
        new_symbol == IF cur_symbol + delta_usd < 0 THEN 0 ELSE cur_symbol + delta_usd
        portfolio_total == IF SumValues(m) + delta_usd < 0 THEN 0 ELSE SumValues(m) + delta_usd
    IN [ok |-> new_symbol <= PerSymbolCap /\ portfolio_total <= PortfolioCap, map |-> m]


\* Mutant of Apply: commits before checking, so a refused delta stays applied.
ApplyCommitsFirst(m, symbol, delta_usd) ==
    LET sum == DictGet(m, symbol, 0) + delta_usd
    IN [raised |-> ~CanAdd(m, symbol, delta_usd).ok,
        map |-> DictPut(m, symbol, IF sum < 0 THEN 0 ELSE sum)]

\* apply: raises ValueError when can_add refuses, else commits (clamped at zero).
Apply(m, symbol, delta_usd) ==
    LET c == CanAdd(m, symbol, delta_usd)
        sum == DictGet(c.map, symbol, 0) + delta_usd
    IN IF ~c.ok THEN [raised |-> TRUE, map |-> c.map]
       ELSE [raised |-> FALSE, map |-> DictPut(c.map, symbol, IF sum < 0 THEN 0 ELSE sum)]

(***************************************************************************)
(* OrderRateLimiter.allow at time t: prune the window, admit below the     *)
(* ceiling, record the timestamp on admission only.                        *)
(***************************************************************************)
MaxActionsPerMin == 2
RateWindowS == 60


\* Mutant of KeepSince: a timestamp exactly one window old is dropped.
KeepAfter(ts, one_min_ago) == SelectSeq(ts, LAMBDA t : t > one_min_ago)

KeepSince(ts, one_min_ago) == SelectSeq(ts, LAMBDA t : t >= one_min_ago)

Allow(ts, t, max_actions_per_min) ==
    LET kept == KeepSince(ts, t - RateWindowS)
    IN IF Len(kept) < max_actions_per_min THEN [ok |-> TRUE, times |-> Append(kept, t)]
       ELSE [ok |-> FALSE, times |-> kept]

(***************************************************************************)
(* DrawdownGuard: _peak starts at 0 and _halted at False.                  *)
(***************************************************************************)
MaxDrawdownUsd == 2

NewGuard == [peak |-> 0, halted |-> FALSE]

\* Mutant of UpdateEquity: the flag follows the current drawdown.
UpdateEquityNoLatch(g, equity_usd) ==
    LET peak == IF equity_usd > g.peak THEN equity_usd ELSE g.peak
    IN [peak |-> peak, halted |-> peak - equity_usd >= MaxDrawdownUsd]

\* Mutant of UpdateEquity: a drawdown of exactly max_drawdown_usd does not halt.
UpdateEquityStrict(g, equity_usd) ==
    LET peak == IF equity_usd > g.peak THEN equity_usd ELSE g.peak
    IN [peak |-> peak, halted |-> g.halted \/ peak - equity_usd > MaxDrawdownUsd]

UpdateEquity(g, equity_usd) ==
    LET peak == IF equity_usd > g.peak THEN equity_usd ELSE g.peak
        drawdown == peak - equity_usd
    IN [peak |-> peak, halted |-> IF drawdown >= MaxDrawdownUsd THEN TRUE ELSE g.halted]

Halted(g) == g.halted

(***************************************************************************)
(* State.                                                                  *)
(***************************************************************************)
VARIABLES
    now,                 \* wall clock, seconds
    inp,                 \* what the venues report to the operation under way
    res,                 \* result of the last evaluate_and_place, None if not called
    calls,               \* gateway calls of the last operation, in order
    symbol_to_notional,  \* NotionalLimiter.symbol_to_notional
    lim_last,            \* the last NotionalLimiter call and its outcome
    times,               \* OrderRateLimiter._times
    allow_hist,          \* history of OrderRateLimiter.allow calls: time and answer
    runner,              \* StrategyRunner's fields
    exch,                \* the venues: perp short, spot base balance, resting orders
    events,              \* log lines and store events of the last cycle, in order
    ep,                  \* history of the repair episode: its first target, its fills
    guard,               \* DrawdownGuard's fields
    equities,            \* history of the update_equity arguments
    run,                 \* StrategyRunner.run: where it is, the stop flag, what it did
    fills                \* history of the fills the venues reported, per leg

vars == << now, inp, res, calls, symbol_to_notional, lim_last, times, allow_hist,
           runner, exch, events, ep, guard, equities, run, fills >>

NoInput == [funding |-> FundingAbsent]
NoLimCall == [op |-> "none", symbol |-> "", delta |-> 0, ok |-> TRUE, raised |-> FALSE]

(***************************************************************************)
(* What the venues may report.                                             *)
(***************************************************************************)
L2(bid, ask) == [bids |-> IF bid > 0 THEN << bid >> ELSE << >>,
                 asks |-> IF ask > 0 THEN << ask >> ELSE << >>]
SpotBooks == {L2(4, 6), L2(4, 5), L2(4, 0), L2(0, 0)}
PerpBooks == {L2(4, 6), L2(0, 0)}
Fundings == {FundingAbsent, FundingBad} \cup {FundingRate(r) : r \in 0..MaxApr}

\* Answers to an order of size qty at price px: fills are at the limit price.
OrderAnswers(qty, px) ==
    {Resting(o) : o \in 1..MaxOid} \cup {Filled(sz, px) : sz \in 1..qty}
        \cup {ErrorStatus, NoStatus, Unparsable}

BalTotals == {None, Some(0), Some(9), Some(10)}
BalEntries == {BalEntry(c, t) : c \in {QuoteCcy, BaseCcy}, t \in BalTotals}
BalSnapshots ==
    {BalRaises, BalNoList, BalList(<< >>)}
        \cup {BalList(<< e >>) : e \in BalEntries}
        \cup {BalList(<< e, f >>) : e \in BalEntries, f \in BalEntries}

(***************************************************************************)
(* SpecEntry: one evaluate_and_place on every combination of reports.      *)
(***************************************************************************)
InitRisk ==
    /\ symbol_to_notional = << >>
    /\ lim_last = NoLimCall
    /\ times = << >>
    /\ allow_hist = << >>

\* run() before its loop, and the fill history before any fill.
NewRun == [pc |-> "loop", stop |-> FALSE, exc |-> FALSE, last |-> "none",
           polls |-> 0, stages |-> {}]
NoFills == [spot_sz |-> 0, spot_usd |-> 0, spot_closed |-> FALSE,
            perp_sz |-> 0, perp_usd |-> 0, perp_closed |-> FALSE]

\* StrategyRunner.__init__.  Fee and realized-PnL accumulators and
\* last_pnl_log_ts are written by the cycle but read by none of its decisions;
\* they are not carried here.  alignment.mode is "log", its default, in which
\* pnl_logging changes none of the fields below.
InitRunnerFields ==
    /\ runner = [cum_spot_usd |-> 0, cum_perp_usd |-> 0, sz_spot |-> 0, sz_perp |-> 0,
                 cost_spot_usd |-> 0, cost_perp_usd |-> 0,
                 last_entry_ts |-> 0, last_exit_ts |-> 0, last_flat_ts |-> 0,
                 exit_in_progress |-> FALSE,
                 repair_active |-> FALSE, repair_start_ts |-> 0, repair_target_sz |-> 0,
                 repair_side |-> "", repair_cancel_done |-> FALSE,
                 last_spot_entry_oid |-> None]
    /\ exch = [short |-> 0, base |-> 0, spot_opens |-> {}, perp_opens |-> {}, next_oid |-> 1]
    /\ events = << >>
    /\ ep = [T |-> 0, filled |-> 0, start |-> 0, escalated |-> FALSE]
    /\ guard = NewGuard
    /\ equities = << >>
    /\ run = NewRun
    /\ fills = NoFills

InitEntry ==
    /\ now = 0
    /\ InitRunnerFields
    /\ res = None
    /\ calls = << >>
    /\ InitRisk
    /\ \E f \in Fundings, sl2 \in SpotBooks, pl2 \in PerpBooks, bal \in BalSnapshots :
         LET q == ComputeTargetQtys(sl2, pl2)
         IN \E sr \in OrderAnswers(q.spot, PriceForSide(sl2, SpotTick, "BUY", PriceOffsetTicks)),
               pr \in OrderAnswers(q.perp, PriceForSide(pl2, PerpTick, "SELL", PriceOffsetTicks)) :
              inp = [funding |-> f, sl2 |-> sl2, pl2 |-> pl2, bal |-> bal,
                     spot_resp |-> sr, perp_resp |-> pr]

EvaluateAndPlaceCall ==
    /\ res = None
    /\ LET r == EvaluateAndPlace(inp.funding, inp.sl2, inp.pl2, inp.bal,
                                 inp.spot_resp, inp.perp_resp)
       IN /\ res' = Some(r.result)
          /\ calls' = r.calls
    /\ UNCHANGED << now, inp, symbol_to_notional, lim_last, times, allow_hist, runner, exch, events, ep,
                  guard, equities, run, fills >>

NextEntry == EvaluateAndPlaceCall
SpecEntry == InitEntry /\ [][NextEntry]_vars

(***************************************************************************)
(* SpecPrice: _price_for_side alone, for either side of any book, tick and *)
(* offset.  inp is what the gateway reports and the configured offset, res *)
(* the BUY and the SELL price once computed.                               *)
(***************************************************************************)
MaxPx == 5
MaxTick == 3
MaxOffsetTicks == 3

InitPrice ==
    /\ now = 0
    /\ InitRunnerFields
    /\ res = None
    /\ calls = << >>
    /\ InitRisk
    /\ \E bid \in 0..MaxPx, ask \in 0..MaxPx, tick \in 1..MaxTick, off \in 0..MaxOffsetTicks :
         inp = [l2 |-> L2(bid, ask), tick |-> tick, offset_ticks |-> off]

PriceForSideCall ==
    /\ res = None
    /\ res' = Some([buy |-> PriceForSide(inp.l2, inp.tick, "BUY", inp.offset_ticks),
                    sell |-> PriceForSide(inp.l2, inp.tick, "SELL", inp.offset_ticks)])
    /\ UNCHANGED << now, inp, calls, symbol_to_notional, lim_last, times, allow_hist, runner,
                    exch, events, ep, guard, equities, run, fills >>

NextPrice == PriceForSideCall
SpecPrice == InitPrice /\ [][NextPrice]_vars

(***************************************************************************)
(* SpecAlign: the alignment step of pnl_logging alone.  inp holds the      *)
(* local ledger before the step, what the venues report (None when the     *)
(* read raises) and the alignment settings; runner is the ledger after it. *)
(***************************************************************************)
MaxAlignSz == 2
MaxMinDiffQuanta == 2
AlignEntryPx == 5
AlignModes == {"log", "force"}
AbsDiff(a, b) == IF a >= b THEN a - b ELSE b - a

\* pnl_logging, the alignment block: r is the runner's fields, venue_perp_abs
\* and base_actual the venue's sizes, entry_px_actual the venue's entry price.
Align(r, enabled, mode, min_diff_quanta, venue_perp_abs, entry_px_actual, base_actual) ==
    LET perp_hit == /\ IsSome(venue_perp_abs)
                    /\ AbsDiff(r.sz_perp, Get(venue_perp_abs)) >= min_diff_quanta * PerpSizeStep
        spot_hit == /\ IsSome(base_actual)
                    /\ AbsDiff(r.sz_spot, Get(base_actual)) >= min_diff_quanta * SpotSizeStep
        r1 == IF perp_hit
              THEN [r EXCEPT !.sz_perp = Get(venue_perp_abs),
                             !.cost_perp_usd =
                                 IF IsSome(entry_px_actual) /\ Get(venue_perp_abs) > 0
                                 THEN Get(entry_px_actual) * Get(venue_perp_abs)
                                 ELSE IF Get(venue_perp_abs) = 0 THEN 0 ELSE @]
              ELSE r
        r2 == IF spot_hit
              THEN [r1 EXCEPT !.sz_spot = Get(base_actual),
                              !.cost_spot_usd = IF Get(base_actual) = 0 THEN 0 ELSE @]
              ELSE r1
    IN IF enabled /\ mode = "force" THEN r2 ELSE r

InitAlign ==
    /\ now = 0
    /\ InitRunnerFields
    /\ res = None
    /\ calls = << >>
    /\ InitRisk
    /\ \E sz_perp \in 0..MaxAlignSz, sz_spot \in 0..MaxAlignSz,
          venue_perp_abs \in {None} \cup {Some(n) : n \in 0..MaxAlignSz},
          base_actual \in {None} \cup {Some(n) : n \in 0..MaxAlignSz},
          entry_px_actual \in {None, Some(AlignEntryPx)},
          enabled \in BOOLEAN, mode \in AlignModes, m \in 1..MaxMinDiffQuanta :
         inp = [sz_perp |-> sz_perp, cost_perp_usd |-> sz_perp * (AlignEntryPx + 1),
                sz_spot |-> sz_spot, cost_spot_usd |-> sz_spot * (AlignEntryPx + 1),
                venue_perp_abs |-> venue_perp_abs, base_actual |-> base_actual,
                entry_px_actual |-> entry_px_actual,
                align_enabled |-> enabled, align_mode |-> mode, align_min_diff_quanta |-> m]

AlignCall ==
    /\ res = None
    /\ res' = Some("aligned")
    /\ runner' = Align([runner EXCEPT !.sz_perp = inp.sz_perp,
                                     !.cost_perp_usd = inp.cost_perp_usd,
                                     !.sz_spot = inp.sz_spot,
                                     !.cost_spot_usd = inp.cost_spot_usd],
                       inp.align_enabled, inp.align_mode, inp.align_min_diff_quanta,
                       inp.venue_perp_abs, inp.entry_px_actual, inp.base_actual)
    /\ UNCHANGED << now, inp, calls, symbol_to_notional, lim_last, times, allow_hist,
                    exch, events, ep, guard, equities, run, fills >>

NextAlign == AlignCall
SpecAlign == InitAlign /\ [][NextAlign]_vars

(***************************************************************************)
(* SpecLimiter: any sequence of can_add / apply calls.                     *)
(***************************************************************************)
MaxDelta == 8
LimSymbols == {"ASTER", "B"}

InitLimiter ==
    /\ now = 0
    /\ InitRunnerFields
    /\ inp = NoInput
    /\ res = None
    /\ calls = << >>
    /\ InitRisk

CanAddCall ==
    \E sym \in LimSymbols, d \in (-MaxDelta)..MaxDelta :
        LET c == CanAdd(symbol_to_notional, sym, d)
        IN /\ symbol_to_notional' = c.map
           /\ lim_last' = [op |-> "can_add", symbol |-> sym, delta |-> d,
                           ok |-> c.ok, raised |-> FALSE]
           /\ UNCHANGED << now, inp, res, calls, times, allow_hist, runner, exch, events, ep,
                  guard, equities, run, fills >>

ApplyCall ==
    \E sym \in LimSymbols, d \in (-MaxDelta)..MaxDelta :
        LET a == Apply(symbol_to_notional, sym, d)
        IN /\ symbol_to_notional' = a.map
           /\ lim_last' = [op |-> "apply", symbol |-> sym, delta |-> d,
                           ok |-> CanAdd(symbol_to_notional, sym, d).ok, raised |-> a.raised]
           /\ UNCHANGED << now, inp, res, calls, times, allow_hist, runner, exch, events, ep,
                  guard, equities, run, fills >>

NextLimiter == CanAddCall \/ ApplyCall
SpecLimiter == InitLimiter /\ [][NextLimiter]_vars

(***************************************************************************)
(* SpecRate: allow() called at non-decreasing times.                       *)
(***************************************************************************)
MaxCalls == 5
Advances == {0, 1, 30, 59, 60, 61}

InitRate ==
    /\ now = 0
    /\ InitRunnerFields
    /\ inp = NoInput
    /\ res = None
    /\ calls = << >>
    /\ InitRisk

AllowCall ==
    /\ Len(allow_hist) < MaxCalls
    /\ \E d \in Advances :
        LET a == Allow(times, now + d, MaxActionsPerMin)
        IN /\ now' = now + d
           /\ times' = a.times
           /\ allow_hist' = Append(allow_hist, [t |-> now + d, ok |-> a.ok])
    /\ UNCHANGED << inp, res, calls, symbol_to_notional, lim_last, runner, exch, events, ep,
                  guard, equities, run, fills >>

NextRate == AllowCall
SpecRate == InitRate /\ [][NextRate]_vars

(***************************************************************************)
(* SpecGuard: any sequence of update_equity calls on a new DrawdownGuard.  *)
(***************************************************************************)
MaxEquity == 4
MaxUpdates == 4
Equities == (-1)..MaxEquity

InitGuard ==
    /\ now = 0
    /\ InitRunnerFields
    /\ inp = NoInput
    /\ res = None
    /\ calls = << >>
    /\ InitRisk

UpdateEquityCall ==
    /\ Len(equities) < MaxUpdates
    /\ \E e \in Equities :
         /\ guard' = UpdateEquity(guard, e)
         /\ equities' = Append(equities, e)
    /\ UNCHANGED << now, inp, res, calls, symbol_to_notional, lim_last, times, allow_hist,
                    runner, exch, events, ep, run, fills >>

NextGuard == UpdateEquityCall
SpecGuard == InitGuard /\ [][NextGuard]_vars

(***************************************************************************)
(* StrategyRunner: configuration of the run.  Times are whole seconds.     *)
(***************************************************************************)
MaxReplacesPerMin == 2       \* execution.max_replaces_per_min, the rate limiter's ceiling
MinEntryIntervalS == 1       \* max(0.2, reprice_interval_ms / 1000)
EnterExitCooldownS == 2      \* execution.enter_exit_cooldown_s
ExitDebounceS == 5           \* the 5.0 of the exit debounce
HedgeRepairTimeoutS == 2     \* max(1.0, hedge_repair_timeout_ms / 1000)
HedgeRepairStageS == 1       \* max(0.5, hedge_repair_stage_ms / 1000)
HedgeRepairTif == "Ioc"      \* execution.hedge_repair_tif
RunSpotBook == L2(4, 6)
RunPerpBook == L2(4, 6)

\* A log line or store event of the cycle, with the size it reports (0 if none).
Ev(msg, sz) == [msg |-> msg, sz |-> sz]

(***************************************************************************)
(* The venues as the runner's gateways see them.  A fill moves the spot    *)
(* base balance or the perp short; a resting order joins the open orders   *)
(* under a fresh oid; a cancel removes the order when the venue honours it.*)
(***************************************************************************)
MaxFillOf(v, call) ==
    IF call.venue = "spot" /\ call.side = "SELL" THEN Min(call.qty, v.base)
    ELSE IF call.venue = "perp" /\ call.reduce_only THEN Min(call.qty, v.short)
    ELSE call.qty

\* The answers a venue may give to an order: a fill of part or all of it at
\* its price, an acknowledgement as resting (never for Ioc), or a rejection.
\* (Answers without a status or without the list are explored in SpecEntry.)
AnswersTo(v, call) ==
    {Filled(sz, call.px) : sz \in 1..MaxFillOf(v, call)}
        \cup (IF call.tif # "Ioc" /\ v.next_oid <= MaxOid THEN {Resting(v.next_oid)} ELSE {})
        \cup {ErrorStatus}

VenueAnswer(v, call, resp) ==
    IF resp.kind = "resting"
    THEN IF call.venue = "spot"
         THEN [v EXCEPT !.spot_opens = @ \cup {resp.oid}, !.next_oid = resp.oid + 1]
         ELSE [v EXCEPT !.perp_opens = @ \cup {resp.oid}, !.next_oid = resp.oid + 1]
    ELSE IF resp.kind = "filled"
    THEN IF call.venue = "spot"
         THEN [v EXCEPT !.base = IF call.side = "BUY" THEN @ + resp.sz ELSE @ - resp.sz]
         ELSE [v EXCEPT !.short = IF call.side = "SELL" THEN @ + resp.sz ELSE @ - resp.sz]
    ELSE v

VenueCancel(v, call, cancel_ok) ==
    IF ~cancel_ok THEN v
    ELSE IF call.venue = "spot" THEN [v EXCEPT !.spot_opens = @ \ {call.oid}]
    ELSE [v EXCEPT !.perp_opens = @ \ {call.oid}]

RECURSIVE VenueCancels(_, _, _)
VenueCancels(v, cs, cancel_ok) ==
    IF cs = << >> THEN v
    ELSE VenueCancels(VenueCancel(v, Head(cs), cancel_ok), Tail(cs), cancel_ok)

\* get_open_orders of a venue, as cancel_order calls in the order listed.
RECURSIVE CancelEach(_, _)
CancelEach(vname, opens) ==
    IF opens = {} THEN << >>
    ELSE LET o == CHOOSE x \in opens : \A y \in opens : x <= y
         IN << CancelOrder(vname, o) >> \o CancelEach(vname, opens \ {o})

\* get_balances of the spot venue: base holdings and the quote total reported.
RunBalances(v, quote) ==
    BalList(<< BalEntry(BaseCcy, Some(v.base)), BalEntry(QuoteCcy, Some(quote)) >>)

(***************************************************************************)
(* The cycle works on a record st of everything it can change:             *)
(*   r runner fields, v venues, lim limiter map, times rate window,        *)
(*   calls gateway calls so far, events log so far, h repair history.      *)
(***************************************************************************)
Log(st, msg, sz) == [st EXCEPT !.events = Append(@, Ev(msg, sz))]

\* StrategyRunner._has_exposure
HasExposure(st) ==
    \/ st.v.short > PerpSizeStep \/ st.r.sz_perp > 0
    \/ st.v.base > SpotSizeStep \/ st.r.sz_spot > 0
    \/ st.v.spot_opens # {} \/ st.v.perp_opens # {}

\* Mutant of CancelAll: the perp venue's open orders are left alone.
CancelAllSpotOnly(st, cancel_ok) ==
    LET cs == CancelEach("spot", st.v.spot_opens)
    IN [st EXCEPT !.calls = @ \o cs, !.v = VenueCancels(@, cs, cancel_ok)]

\* StrategyRunner._cancel_all: every open spot order, then every open perp order.
CancelAll(st, cancel_ok) ==
    LET cs == CancelEach("spot", st.v.spot_opens) \o CancelEach("perp", st.v.perp_opens)
    IN [st EXCEPT !.calls = @ \o cs, !.v = VenueCancels(@, cs, cancel_ok)]

\* entry_avg * use_sz, where entry_avg is cost / size: amounts are whole units,
\* the product is taken before the division.
AvgTimes(cost, size, use_sz) == (cost * use_sz) \div size

\* StrategyRunner._close_perp: the reduce-only BUY it places, None if it returns first.
ClosePerpOrder(st) ==
    LET b == BestBidAskFromL2(RunPerpBook)
        mid2 == Mid2(b.bid, b.ask)
        short_qty == IF st.v.short > 0 THEN st.v.short
                     ELSE IF st.r.sz_perp > 0 THEN st.r.sz_perp ELSE 0
        qty == (short_qty \div PerpSizeStep) * PerpSizeStep
    IN IF mid2 <= 0 \/ qty <= 0 THEN None
       ELSE Some(PlaceOrder("perp", "BUY", qty, IF b.ask > 0 THEN b.ask ELSE mid2 \div 2,
                            CfgTif, TRUE, FALSE))

\* _close_perp with the venue's answer: local size is synced to the venue's
\* short after the attempt, whatever the fill bookkeeping did.
ClosePerp(st, resp) ==
    LET o == ClosePerpOrder(st)
        f == FilledOf(resp)
    IN IF ~IsSome(o) THEN st
       ELSE LET v2 == VenueAnswer(st.v, Get(o), resp)
                venue_entry == IF v2.short > 0 THEN Get(o).px ELSE 0
                local_open_sz == IF st.r.sz_perp > 0 THEN st.r.sz_perp ELSE v2.short
                use_sz == IF local_open_sz > 0 THEN Min(f.sz, local_open_sz) ELSE 0
                own_avg == st.r.sz_perp > 0 /\ st.r.cost_perp_usd > 0
                closed_usd == IF own_avg THEN AvgTimes(st.r.cost_perp_usd, st.r.sz_perp, use_sz)
                              ELSE venue_entry * use_sz
                s1 == [st EXCEPT !.calls = Append(@, Get(o)), !.v = v2,
                                 !.r.cost_perp_usd =
                                     IF f.sz > 0 /\ use_sz > 0 /\ closed_usd > 0
                                        /\ st.r.sz_perp > 0
                                     THEN @ - closed_usd ELSE @,
                                 !.r.sz_perp = v2.short]
            IN Log(s1, "close_perp_order", Get(o).qty)

\* StrategyRunner._close_spot: the SELL of the whole base balance at the bid.
CloseSpotOrder(st) ==
    LET qty == (st.v.base \div SpotSizeStep) * SpotSizeStep
    IN IF st.v.base <= 0 \/ qty <= 0 THEN None
       ELSE Some(PlaceOrder("spot", "SELL", qty, BestBidAskFromL2(RunSpotBook).bid,
                            CfgTif, FALSE, FALSE))

CloseSpot(st, resp) ==
    LET o == CloseSpotOrder(st)
        f == FilledOf(resp)
    IN IF ~IsSome(o) THEN st
       ELSE LET s1 == [st EXCEPT !.calls = Append(@, Get(o)),
                                 !.v = VenueAnswer(@, Get(o), resp),
                                 !.r.cost_spot_usd =
                                     IF f.sz > 0 /\ st.r.sz_spot > 0
                                     THEN @ - AvgTimes(@, st.r.sz_spot, Min(f.sz, st.r.sz_spot))
                                     ELSE @,
                                 !.r.sz_spot = IF f.sz > 0 /\ @ > 0 THEN @ - Min(f.sz, @) ELSE @]
            IN Log(s1, "close_spot_order", Get(o).qty)

\* Mutant of GuardHalted: the guard is not asked.
GuardNotAsked == FALSE

\* self.guard.halted(), as _risk_ok reads it.  The runner itself never feeds
\* the guard, so in the loop alone the guard stays as constructed.
GuardHalted == Halted(guard)

\* StrategyRunner._risk_ok at time t: the answer and the state it leaves
\* (the rate limiter records an admitted call; each refusal is logged).
\* opens_read: both get_open_orders calls returned; when one of them raises,
\* the except clause passes and the open-order test is skipped.
RiskOk(st, t, opens_read) ==
    IF GuardHalted THEN [ok |-> FALSE, st |-> Log(st, "guard_halted", 0)]
    ELSE LET a == Allow(st.times, t, MaxReplacesPerMin)
             s1 == [st EXCEPT !.times = a.times]
             remaining_budget ==
                 TargetUsdNotional - Max(st.r.cum_spot_usd, st.r.cum_perp_usd)
         IN IF ~a.ok THEN [ok |-> FALSE, st |-> Log(s1, "rate_limited", 0)]
            ELSE IF t - st.r.last_entry_ts < MinEntryIntervalS
            THEN [ok |-> FALSE, st |-> Log(s1, "throttled", 0)]
            ELSE IF opens_read /\ (st.v.spot_opens # {} \/ st.v.perp_opens # {})
            THEN [ok |-> FALSE, st |-> Log(s1, "skip_due_to_open_orders", 0)]
            ELSE IF remaining_budget <= 0
            THEN [ok |-> FALSE, st |-> Log(s1, "target_reached", 0)]
            ELSE IF ~CanAdd(st.lim, PerpSymbol, remaining_budget).ok
            THEN [ok |-> FALSE, st |-> Log(s1, "notional_cap_block", 0)]
            ELSE [ok |-> TRUE, st |-> s1]

\* The venues after the gateway calls of evaluate_and_place.
RECURSIVE VenueAfterEntry(_, _, _, _, _)
VenueAfterEntry(v, cs, spot_resp, perp_resp, cancel_ok) ==
    IF cs = << >> THEN v
    ELSE LET c == Head(cs)
             v2 == IF c.op = "cancel_order" THEN VenueCancel(v, c, cancel_ok)
                   ELSE VenueAnswer(v, c, IF c.venue = "spot" THEN spot_resp ELSE perp_resp)
         IN VenueAfterEntry(v2, Tail(cs), spot_resp, perp_resp, cancel_ok)

\* Mutant of AddCost: the fill's price is added whatever its size.
AddCostOfOneUnit(cost, sz, avg) == IF sz > 0 /\ avg > 0 THEN cost + avg ELSE cost

\* The average-cost update of a fill (runner.py 744-747).
AddCost(cost, sz, avg) == IF sz > 0 /\ avg > 0 THEN cost + sz * avg ELSE cost

\* step, the bookkeeping of an attempt that reported entered (runner.py 729-805).
EnteredBookkeeping(st, result, t) ==
    LET su == result.spot_filled_usd
        pu == result.perp_filled_usd
        used_delta == Max(su, pu)
        s1 == IF su > 0 \/ pu > 0
              THEN [st EXCEPT !.r.cum_spot_usd = @ + su,
                              !.r.cum_perp_usd = @ + pu,
                              !.r.sz_spot = @ + result.spot_filled_sz,
                              !.r.sz_perp = @ + result.perp_filled_sz,
                              !.r.cost_spot_usd = AddCost(@, result.spot_filled_sz,
                                                          result.spot_filled_avg_px),
                              !.r.cost_perp_usd = AddCost(@, result.perp_filled_sz,
                                                          result.perp_filled_avg_px),
                              !.events = Append(@, Ev("fee", 0)),
                              !.lim = IF used_delta > 0
                                      THEN Apply(@, PerpSymbol, used_delta).map ELSE @]
              ELSE st
    IN [s1 EXCEPT !.r.last_entry_ts = t,
                  !.r.exit_in_progress = FALSE,
                  !.r.last_spot_entry_oid =
                      IF IsSome(result.spot_oid) THEN result.spot_oid ELSE @,
                  !.events = @ \o << Ev("entry", 0), Ev("entered_position", 0) >>]


\* Mutant of NeedsRepair: any perp fill starts a repair.
NeedsRepairOnAnyPerpFill(result) == result.perp_filled_sz > 0

\* The activation test of the hedge repair (runner.py 812).
NeedsRepair(result) == result.perp_filled_sz > 0 /\ result.spot_filled_sz = 0

\* step, hedge repair activation (runner.py 807-844): arm the machine, cancel the
\* remembered spot entry order, then every spot order the venue still lists.
ActivateRepair(st, result, t, cancel_ok) ==
    IF ~NeedsRepair(result) THEN st
    ELSE LET s1 == [st EXCEPT !.r.repair_active = TRUE,
                              !.r.repair_start_ts = t,
                              !.r.repair_target_sz = result.perp_filled_sz,
                              !.r.repair_side = "BUY_SPOT",
                              !.r.repair_cancel_done = FALSE,
                              !.h = IF st.r.repair_active THEN @
                                    ELSE [T |-> result.perp_filled_sz, filled |-> 0,
                                          start |-> t, escalated |-> FALSE]]
             c1 == IF IsSome(s1.r.last_spot_entry_oid)
                   THEN << CancelOrder("spot", Get(s1.r.last_spot_entry_oid)) >> ELSE << >>
             v1 == VenueCancels(s1.v, c1, cancel_ok)
             c2 == CancelEach("spot", v1.spot_opens)
         IN [Log(s1, "hedge_repair_started", result.perp_filled_sz)
                 EXCEPT !.calls = @ \o c1 \o c2, !.v = VenueCancels(v1, c2, cancel_ok)]

\* _repair_hedge at time t: has the episode outlived the timeout?
RepairTimedOut(st, t) == t - st.r.repair_start_ts > HedgeRepairTimeoutS

\* _repair_hedge: the order it places, None if it places none.
RepairOrder(st, t) ==
    IF RepairTimedOut(st, t)
    THEN LET b == BestBidAskFromL2(RunPerpBook)
             qty == (st.v.short \div PerpSizeStep) * PerpSizeStep
         IN IF st.v.short > 0 /\ qty > 0
            THEN Some(PlaceOrder("perp", "BUY", qty,
                                 IF b.ask > 0 THEN b.ask ELSE Mid2(b.bid, b.ask) \div 2,
                                 HedgeRepairTif, TRUE, FALSE))
            ELSE None
    ELSE IF st.r.repair_side = "BUY_SPOT"
    THEN LET b == BestBidAskFromL2(RunSpotBook)
             age == t - st.r.repair_start_ts
         IN Some(PlaceOrder("spot", "BUY", st.r.repair_target_sz,
                            IF b.ask > 0 THEN b.ask ELSE Mid2(b.bid, b.ask) \div 2,
                            IF age >= HedgeRepairStageS THEN HedgeRepairTif ELSE CfgTif,
                            FALSE, FALSE))
    ELSE None

\* StrategyRunner._repair_hedge with the venue's answer to its order.
RepairHedge(st, t, resp, cancel_ok) ==
    LET o == RepairOrder(st, t)
    IN IF RepairTimedOut(st, t)
       THEN LET s1 == IF IsSome(o)
                      THEN Log([st EXCEPT !.calls = Append(@, Get(o)),
                                          !.v = VenueAnswer(@, Get(o), resp)],
                               "hedge_unwound", Get(o).qty)
                      ELSE st
            IN [s1 EXCEPT !.r.repair_active = FALSE]
       ELSE IF ~IsSome(o) THEN st
       ELSE LET cs == IF st.r.repair_cancel_done THEN << >>
                      ELSE CancelEach("spot", st.v.spot_opens)
                s1 == [st EXCEPT !.calls = (@ \o cs) \o << Get(o) >>,
                                 !.v = VenueAnswer(VenueCancels(@, cs, cancel_ok), Get(o), resp),
                                 !.r.repair_cancel_done = TRUE]
                s2 == Log([s1 EXCEPT !.h.escalated = @ \/ Get(o).tif # CfgTif],
                          "spot_repair_attempt", Get(o).qty)
                f == FilledOf(resp)
                s3 == IF f.sz > 0 /\ f.avg > 0
                      THEN [s2 EXCEPT !.r.sz_spot = @ + f.sz,
                                      !.r.cost_spot_usd = @ + f.usd,
                                      !.r.cum_spot_usd = @ + f.usd,
                                      !.lim = Apply(@, PerpSymbol, f.usd).map,
                                      !.r.repair_target_sz = Max(0, @ - f.sz),
                                      !.h.filled = @ + f.sz]
                      ELSE s2
            IN IF ~StatusesRaises(resp) /\ s3.r.repair_target_sz <= 0
               THEN Log([s3 EXCEPT !.r.repair_active = FALSE], "hedge_repair_completed", 0)
               ELSE s3

(***************************************************************************)
(* Spec: the trading loop.  Each Step is one StrategyRunner.step at a      *)
(* later (or the same) second, against whatever the venues report.         *)
(***************************************************************************)
MaxNow == 4
MaxAdvance == 2
RunQuoteTotals == {0, 20}
CancelOutcomes == BOOLEAN      \* a venue honours the cycle's cancels, or none of them
RunFundings == {FundingAbsent} \cup {FundingRate(r) : r \in ExitThresholdApr..EnterThresholdApr}

InitRunner ==
    /\ now = 1
    /\ inp = NoInput
    /\ res = None
    /\ calls = << >>
    /\ InitRisk
    /\ InitRunnerFields

Start ==
    [r |-> runner, v |-> exch, lim |-> symbol_to_notional, times |-> times,
     calls |-> << >>, events |-> << >>, h |-> ep, fl |-> fills]

\* The fill history: a fill the venue reported on an opening order adds its
\* size and its size x price to the leg; an order that closes the leg, filled
\* or not, ends the leg's run of same-direction fills.
NoteFill(st, call, resp) ==
    IF resp.kind # "filled" THEN st
    ELSE IF call.venue = "spot"
    THEN [st EXCEPT !.fl.spot_sz = @ + resp.sz, !.fl.spot_usd = @ + resp.sz * resp.px]
    ELSE [st EXCEPT !.fl.perp_sz = @ + resp.sz, !.fl.perp_usd = @ + resp.sz * resp.px]

NoteClose(st, order) ==
    IF ~IsSome(order) THEN st
    ELSE IF Get(order).venue = "spot" THEN [st EXCEPT !.fl.spot_closed = TRUE]
    ELSE [st EXCEPT !.fl.perp_closed = TRUE]

\* The cycle ends at time t having seen funding f: st is what it leaves behind,
\* result the answer of evaluate_and_place (None if it was not called).
Finish(t, f, st, result) ==
    /\ now' = t
    /\ inp' = [funding |-> f]
    /\ res' = result
    /\ calls' = st.calls
    /\ symbol_to_notional' = st.lim
    /\ times' = st.times
    /\ runner' = st.r
    /\ exch' = st.v
    /\ events' = st.events
    /\ ep' = st.h
    /\ fills' = st.fl
    /\ run' = [run EXCEPT !.last = "step"]
    /\ UNCHANGED << lim_last, allow_hist, guard, equities >>

\* now - ts < enter_exit_cooldown_s, for a timestamp that was ever set.
InCooldown(ts, t) == ts # 0 /\ t - ts < EnterExitCooldownS

\* step, the branch taken when apr <= exit_threshold_apr (runner.py 690-711).
StepExit(t, f, st) ==
    IF \/ ~HasExposure(st)
       \/ InCooldown(st.r.last_entry_ts, t)
       \/ InCooldown(st.r.last_exit_ts, t)
       \/ ~(~st.r.exit_in_progress \/ t - st.r.last_exit_ts > ExitDebounceS)
    THEN Finish(t, f, st, None)
    ELSE \E cancel_ok \in CancelOutcomes :
         \E s1 \in {CancelAll(Log([st EXCEPT !.r.exit_in_progress = TRUE,
                                             !.r.last_exit_ts = t],
                                  "exit_condition_met", 0), cancel_ok)} :
         \E po \in {ClosePerpOrder(s1)} :
         \E presp \in (IF IsSome(po) THEN AnswersTo(s1.v, Get(po)) ELSE {NoStatus}) :
         \E s2 \in {NoteClose(ClosePerp(s1, presp), po)} :
         \E so \in {CloseSpotOrder(s2)} :
         \E sresp \in (IF IsSome(so) THEN AnswersTo(s2.v, Get(so)) ELSE {NoStatus}) :
         \E s3 \in {NoteClose(CloseSpot(s2, sresp), so)} :
             Finish(t, f, s3, None)

\* step from the enter threshold on (runner.py 714-848): cooldowns, _risk_ok,
\* evaluate_and_place, the bookkeeping of an entry, and the hedge repair.
StepEnter(t, f, st, opens_read) ==
    IF InCooldown(st.r.last_flat_ts, t) \/ InCooldown(st.r.last_exit_ts, t)
    THEN Finish(t, f, st, None)
    ELSE \E ro \in {RiskOk(st, t, opens_read)} :
         IF ~ro.ok THEN Finish(t, f, ro.st, None)
         ELSE \E quote \in RunQuoteTotals, cancel_ok \in CancelOutcomes :
              \E q \in {ComputeTargetQtys(RunSpotBook, RunPerpBook)} :
              \E so \in {SpotEntryOrder(q.spot, PriceForSide(RunSpotBook, SpotTick, "BUY",
                                                            PriceOffsetTicks))} :
              \E po \in {PerpEntryOrder(q.perp, PriceForSide(RunPerpBook, PerpTick, "SELL",
                                                            PriceOffsetTicks))} :
              \E sr \in AnswersTo(ro.st.v, so) :
              \E pr \in AnswersTo(VenueAnswer(ro.st.v, so, sr), po) :
              \E e \in {EvaluateAndPlace(f, RunSpotBook, RunPerpBook,
                                         RunBalances(ro.st.v, quote), sr, pr)} :
              \E s1 \in {[ro.st EXCEPT !.calls = @ \o e.calls,
                                       !.v = VenueAfterEntry(@, e.calls, sr, pr, cancel_ok)]} :
              \E s2 \in {IF e.result.entered
                         THEN ActivateRepair(
                                  EnteredBookkeeping(NoteFill(NoteFill(s1, so, sr), po, pr),
                                                     e.result, t),
                                  e.result, t, cancel_ok)
                         ELSE s1} :
              \E ro2 \in {IF s2.r.repair_active THEN RepairOrder(s2, t) ELSE None} :
              \E rr \in (IF IsSome(ro2) THEN AnswersTo(s2.v, Get(ro2)) ELSE {NoStatus}) :
              \E s3 \in {IF ~s2.r.repair_active THEN s2
                         ELSE IF RepairTimedOut(s2, t)
                         THEN NoteClose(RepairHedge(s2, t, rr, cancel_ok), ro2)
                         ELSE NoteFill(RepairHedge(s2, t, rr, cancel_ok), Get(ro2), rr)} :
                  Finish(t, f, s3, Some(e.result))

\* StrategyRunner.step, d seconds after the previous cycle.
Step ==
    \E d \in 0..MaxAdvance, f \in RunFundings, st \in {Start} :
        /\ now + d <= MaxNow
        /\ LET t == now + d
               apr == ComputeExpectedFundingApr(f)
           IN IF ~IsSome(apr) THEN Finish(t, f, st, None)
              ELSE IF Get(apr) <= ExitThresholdApr THEN StepExit(t, f, st)
              ELSE IF Get(apr) < EnterThresholdApr THEN Finish(t, f, st, None)
              ELSE StepEnter(t, f, st, TRUE)

Next == Step
Spec == InitRunner /\ [][Next]_vars

\* The loop where the signal is always available and no repair order ever fills.
QuietStep == Step /\ inp'.funding.kind = "rate" /\ ep'.filled = 0

\* SpecLive: that loop, kept cycling.
NextLive == QuietStep
SpecLive == InitRunner /\ [][NextLive]_vars /\ WF_vars(QuietStep)

(***************************************************************************)
(* SpecRun: StrategyRunner.run in loop mode.  run.pc is where run() is:    *)
(* "loop" at the while test, "shutdown" in the finally clause before       *)
(* shutdown(), "flatten" inside _await_flatten, "summary" before the final *)
(* summary, "returned" / "raised" once run() has ended.  run.exc is an     *)
(* exception on its way out of run(), run.stages the parts of shutdown()   *)
(* that were called, run.last the last thing run() did.                    *)
(***************************************************************************)
FlattenPolls == 2            \* max_wait_s / poll_interval_s of shutdown's _await_flatten
MaxRunNow == 1               \* the loop starts no cycle after this time
GatewayRaises == BOOLEAN     \* a gateway read raises (network failure), or answers

\* What an operation of the shutdown leaves behind; no cycle is in progress.
Leave(st) ==
    /\ calls' = st.calls
    /\ symbol_to_notional' = st.lim
    /\ times' = st.times
    /\ runner' = st.r
    /\ exch' = st.v
    /\ events' = st.events
    /\ ep' = st.h
    /\ fills' = st.fl
    /\ inp' = NoInput
    /\ res' = None
    /\ UNCHANGED << now, lim_last, allow_hist, guard, equities >>

\* One pass of `while not self._stop: self.step(); self.clock.sleep(interval)`.
RunCycle ==
    /\ run.pc = "loop" /\ ~run.stop
    /\ now <= MaxRunNow
    /\ Step

\* step raises: get_funding, its first call, fails.  run() has no handler for
\* it (only KeyboardInterrupt is caught), so control passes to the finally
\* clause with the exception pending.
StepRaises ==
    /\ run.pc = "loop" /\ ~run.stop
    /\ run' = [run EXCEPT !.pc = "shutdown", !.exc = TRUE, !.last = "step_raised"]
    /\ UNCHANGED << now, inp, res, calls, symbol_to_notional, lim_last, times, allow_hist,
                    runner, exch, events, ep, guard, equities, fills >>

\* request_stop, from the SIGINT handler: sets the flag, whatever run() is doing.
RequestStop ==
    /\ run.pc = "loop" /\ ~run.stop
    /\ run' = [run EXCEPT !.stop = TRUE, !.last = "stop"]
    /\ UNCHANGED << now, inp, res, calls, symbol_to_notional, lim_last, times, allow_hist,
                    runner, exch, events, ep, guard, equities, fills >>

\* The loop has ended (stop flag seen at the while test, or an exception left
\* step): shutdown() up to _close_spot.  _close_perp reads the perp book and
\* symbol meta outside any try; if that raises, shutdown() and run() end there.
ShutdownClose ==
    /\ (run.pc = "loop" /\ run.stop) \/ run.pc = "shutdown"
    /\ \E cancel_ok \in CancelOutcomes, perp_read_raises \in GatewayRaises :
       \E s1 \in {CancelAll(Log([Start EXCEPT !.r.last_flat_ts = @], "shutdown_close_start", 0),
                            cancel_ok)} :
          IF perp_read_raises
          THEN /\ Leave(s1)
               /\ run' = [run EXCEPT !.pc = "raised", !.exc = TRUE, !.last = "shutdown",
                                     !.stages = {"cancel_all", "close_perp"}]
          ELSE \E po \in {ClosePerpOrder(s1)} :
               \E presp \in (IF IsSome(po) THEN AnswersTo(s1.v, Get(po)) ELSE {NoStatus}) :
               \E s2 \in {NoteClose(ClosePerp(s1, presp), po)} :
               \E so \in {CloseSpotOrder(s2)} :
               \E sresp \in (IF IsSome(so) THEN AnswersTo(s2.v, Get(so)) ELSE {NoStatus}) :
               \E s3 \in {NoteClose(CloseSpot(s2, sresp), so)} :
                  /\ Leave(s3)
                  /\ run' = [run EXCEPT !.pc = "flatten", !.last = "shutdown", !.polls = 0,
                                        !.stages = {"cancel_all", "close_perp", "close_spot",
                                                    "await_flatten"}]

\* _await_flatten when both legs are flat and no order is open.
Flattened(st, t) ==
    [st EXCEPT !.r.sz_perp = 0, !.r.sz_spot = 0,
               !.r.cost_perp_usd = 0, !.r.cost_spot_usd = 0,
               !.r.last_flat_ts = t]

\* One pass of _await_flatten's loop (the symbol meta reads before the loop
\* with the first); an exception out of it is swallowed by shutdown().
AwaitFlattenPoll ==
    /\ run.pc = "flatten"
    /\ \E cancel_ok \in CancelOutcomes, meta_raises \in GatewayRaises,
          perp_read_raises \in GatewayRaises :
       \E s0 \in {[Start EXCEPT !.events = events]} :
       \E had_opens \in {s0.v.spot_opens # {} \/ s0.v.perp_opens # {}} :
       \E s1 \in {Log(IF had_opens THEN CancelAll(s0, cancel_ok) ELSE s0,
                      "exit_finalize_progress", s0.v.short)} :
       \E perp_done \in {s1.v.short <= PerpSizeStep} :
       \E spot_done \in {s1.v.base <= SpotSizeStep} :
          IF run.polls = 0 /\ meta_raises
          THEN /\ Leave(s0)
               /\ run' = [run EXCEPT !.pc = "summary", !.last = "flatten"]
          ELSE IF perp_done /\ spot_done /\ ~had_opens
          THEN /\ Leave(Flattened(s1, now))
               /\ run' = [run EXCEPT !.pc = "summary", !.last = "flatten"]
          ELSE IF ~perp_done /\ perp_read_raises
          THEN /\ Leave(s1)
               /\ run' = [run EXCEPT !.pc = "summary", !.last = "flatten"]
          ELSE \E po \in {IF perp_done THEN None ELSE ClosePerpOrder(s1)} :
               \E presp \in (IF IsSome(po) THEN AnswersTo(s1.v, Get(po)) ELSE {NoStatus}) :
               \E s2 \in {IF perp_done THEN s1 ELSE NoteClose(ClosePerp(s1, presp), po)} :
               \E so \in {IF spot_done THEN None ELSE CloseSpotOrder(s2)} :
               \E sresp \in (IF IsSome(so) THEN AnswersTo(s2.v, Get(so)) ELSE {NoStatus}) :
               \E s3 \in {IF spot_done THEN s2 ELSE NoteClose(CloseSpot(s2, sresp), so)} :
                  /\ Leave(s3)
                  /\ run' = [run EXCEPT !.polls = @ + 1, !.last = "flatten",
                                        !.pc = IF run.polls + 1 >= FlattenPolls
                                               THEN "summary" ELSE "flatten"]

\* The end of shutdown(): the summary block reads both books inside a try
\* whose handler passes; then shutdown_close_end, and run() ends, re-raising
\* an exception that was pending.
Summary ==
    /\ run.pc = "summary"
    /\ \E l2_raises \in GatewayRaises :
       \E s0 \in {[Start EXCEPT !.events = events]} :
       \E s1 \in {IF l2_raises THEN s0 ELSE Log(s0, "shutdown_summary", 0)} :
          /\ Leave(Log(s1, "shutdown_close_end", 0))
          /\ run' = [run EXCEPT !.pc = IF run.exc THEN "raised" ELSE "returned",
                                !.last = "summary"]

NextRun == RunCycle \/ StepRaises \/ RequestStop \/ ShutdownClose \/ AwaitFlattenPoll \/ Summary
SpecRun == InitRunner /\ [][NextRun]_vars

(***************************************************************************)
(* SpecDrawdown: the trading loop next to the account's equity.  The       *)
(* runner builds a DrawdownGuard and asks it halted() in _risk_ok, but no  *)
(* code passes an equity to update_equity: equities is the account's       *)
(* equity as it moves, guard is the runner's guard.                        *)
(***************************************************************************)
MaxRunEquities == 2
RunEquities == {0, MaxDrawdownUsd}

\* The account's equity takes a new value; the runner's guard is not told.
EquityMoves ==
    /\ Len(equities) < MaxRunEquities
    /\ \E e \in RunEquities : equities' = Append(equities, e)
    /\ UNCHANGED << now, inp, res, calls, symbol_to_notional, lim_last, times, allow_hist,
                    runner, exch, events, ep, guard, run, fills >>

NextDrawdown == Step \/ EquityMoves
SpecDrawdown == InitRunner /\ [][NextDrawdown]_vars

(***************************************************************************)
(* SpecHalt: the trading loop with a caller that does feed the runner's    *)
(* guard (runner.guard.update_equity) between cycles.                      *)
(***************************************************************************)
GuardFed ==
    /\ Len(equities) < MaxRunEquities
    /\ \E e \in RunEquities :
         /\ guard' = UpdateEquity(guard, e)
         /\ equities' = Append(equities, e)
    /\ UNCHANGED << now, inp, res, calls, symbol_to_notional, lim_last, times, allow_hist,
                    runner, exch, events, ep, run, fills >>

NextHalt == Step \/ GuardFed
SpecHalt == InitRunner /\ [][NextHalt]_vars

(***************************************************************************)
(* SpecOpens: the trading loop against gateways whose get_open_orders may  *)
(* raise inside _risk_ok.                                                  *)
(***************************************************************************)
\* A step that reaches the enter branch and whose open-order read raises.
StepOpensRaise ==
    \E d \in 0..MaxAdvance, f \in RunFundings, st \in {Start} :
        /\ now + d <= MaxNow
        /\ LET apr == ComputeExpectedFundingApr(f)
           IN /\ IsSome(apr)
              /\ Get(apr) >= EnterThresholdApr
              /\ StepEnter(now + d, f, st, FALSE)

NextOpens == Step \/ StepOpensRaise
SpecOpens == InitRunner /\ [][NextOpens]_vars

(***************************************************************************)
(* Properties of evaluate_and_place (SpecEntry).                           *)
(***************************************************************************)
Called == IsSome(res)
PlacedOn(venue) == {i \in 1..Len(calls) : calls[i].op = "place_order" /\ calls[i].venue = venue}
CancelsOn(venue) == {i \in 1..Len(calls) : calls[i].op = "cancel_order" /\ calls[i].venue = venue}
SpotBuyPlaced == \E i \in PlacedOn("spot") : calls[i].side = "BUY"
PerpSellPlaced == \E i \in PlacedOn("perp") : calls[i].side = "SELL"

\* C1: whenever the spot BUY answer carries an error status, no order is placed
\* on the perp gateway in that attempt and the result has entered = false.
C1_SpotErrorNoPerpOrder ==
    (Called /\ SpotBuyPlaced /\ inp.spot_resp.kind = "error")
        => (PlacedOn("perp") = {} /\ ~Get(res).entered)

C1_Witness == Called /\ SpotBuyPlaced /\ inp.spot_resp.kind = "error"

\* C2: if the perp SELL leg errors after the spot BUY leg was acknowledged as
\* resting with oid X, exactly one cancel_order is issued on the spot gateway,
\* it targets X and follows the perp order, and the result has entered = false.
C2_PerpErrorCancelsSpotOnce ==
    (Called /\ PerpSellPlaced /\ inp.perp_resp.kind \in {"error", "unparsable"}
        /\ inp.spot_resp.kind = "resting")
        => /\ Cardinality(CancelsOn("spot")) = 1
           /\ \A i \in CancelsOn("spot") :
                 /\ calls[i].oid = inp.spot_resp.oid
                 /\ \A j \in PlacedOn("perp") : j < i
           /\ CancelsOn("perp") = {}
           /\ ~Get(res).entered

C2_Witness ==
    /\ Called /\ PerpSellPlaced /\ inp.perp_resp.kind = "error"
    /\ inp.spot_resp.kind = "resting" /\ inp.spot_resp.oid = MaxOid
    /\ Cardinality(CancelsOn("spot")) = 1

\* The quote balance the venue reports: the total of the first entry of the
\* quote currency; unreadable when the call raises or the total is missing.
QuoteCovers(bal, needed) ==
    /\ bal.kind = "list"
    /\ \E i \in 1..Len(bal.entries) :
          /\ bal.entries[i].coin = QuoteCcy
          /\ \A j \in 1..(i-1) : bal.entries[j].coin # QuoteCcy
          /\ bal.entries[i].total # None
          /\ bal.entries[i].total[1] >= needed

NeededQuote ==
    ComputeTargetQtys(inp.sl2, inp.pl2).spot * PriceForSide(inp.sl2, SpotTick, "BUY", PriceOffsetTicks)

C18_BelowThresholdNoOrders ==
    (Called /\ (inp.funding.kind # "rate" \/ inp.funding.val < EnterThresholdApr))
        => (PlacedOn("spot") = {} /\ PlacedOn("perp") = {} /\ ~Get(res).entered)

\* A rate one below the threshold, with books, balance and venues that would
\* let an entry through.
C18_Witness ==
    /\ Called /\ inp.funding = FundingRate(EnterThresholdApr - 1)
    /\ ComputeTargetQtys(inp.sl2, inp.pl2).spot > 0
    /\ QuoteCovers(inp.bal, NeededQuote)
    /\ inp.spot_resp.kind = "resting" /\ inp.perp_resp.kind = "resting"
    /\ calls = << >>

\* An answer with status ok and no error status: resting, filled, or no status.
AnswersOk(resp) == resp.kind \in {"resting", "filled", "nostatus"}
ValidQuotes ==
    LET q == ComputeTargetQtys(inp.sl2, inp.pl2) IN q.spot > 0 /\ q.perp > 0

\* C19: when the rate is at or above enter_threshold_apr, the quote balance
\* covers the purchase, quotes are valid and both venues answer without an
\* error status, exactly one spot BUY and then exactly one perp SELL are
\* placed, the spot one first, and the result has entered = true.
C19_EntryPlacesSpotThenPerp ==
    (/\ Called /\ inp.funding.kind = "rate" /\ inp.funding.val >= EnterThresholdApr
     /\ ValidQuotes /\ QuoteCovers(inp.bal, NeededQuote)
     /\ AnswersOk(inp.spot_resp) /\ AnswersOk(inp.perp_resp))
        => /\ Len(calls) = 2
           /\ calls[1].op = "place_order" /\ calls[1].venue = "spot" /\ calls[1].side = "BUY"
           /\ calls[2].op = "place_order" /\ calls[2].venue = "perp" /\ calls[2].side = "SELL"
           /\ Get(res).entered

C19_Witness ==
    /\ Called /\ inp.funding = FundingRate(EnterThresholdApr)
    /\ ValidQuotes /\ QuoteCovers(inp.bal, NeededQuote)
    /\ inp.spot_resp.kind = "resting" /\ inp.perp_resp.kind = "filled"
    /\ Len(calls) = 2 /\ Get(res).entered

\* C20: with the rate at or above the threshold, a book of bid and ask two
\* ticks apart on both venues, both orders acknowledged as resting and a spot
\* balance snapshot whose balances list is empty, evaluate_and_place returns
\* entered = true and exactly two orders are placed.
C20_EntersOnEmptyBalances ==
    (/\ Called /\ inp.funding.kind = "rate" /\ inp.funding.val >= EnterThresholdApr
     /\ inp.sl2 = L2(4, 6) /\ inp.pl2 = L2(4, 6)
     /\ inp.bal = BalList(<< >>)
     /\ inp.spot_resp.kind = "resting" /\ inp.perp_resp.kind = "resting")
        => /\ Get(res).entered
           /\ Cardinality(PlacedOn("spot") \cup PlacedOn("perp")) = 2

(***************************************************************************)
(* Properties of the hedge-repair machine (Spec).  Idle is repair_active   *)
(* false, Repairing is repair_active true; ep remembers the target the     *)
(* machine took when it last left Idle, the time it did, what repair       *)
(* orders filled since and whether one of them was escalated.              *)
(***************************************************************************)
Idle == ~runner.repair_active
Repairing == runner.repair_active
Logged(es, msg) == \E i \in 1..Len(es) : es[i].msg = msg
RepairTimeoutElapsed == now - runner.repair_start_ts > HedgeRepairTimeoutS
RunEntryOrders ==
    LET q == ComputeTargetQtys(RunSpotBook, RunPerpBook)
    IN {SpotEntryOrder(q.spot, PriceForSide(RunSpotBook, SpotTick, "BUY", PriceOffsetTicks)),
        PerpEntryOrder(q.perp, PriceForSide(RunPerpBook, PerpTick, "SELL", PriceOffsetTicks))}
EntryOrderPlaced(cs) == \E i \in 1..Len(cs) : cs[i] \in RunEntryOrders

\* C4: a cycle that starts in Idle and makes an entry attempt starts a repair
\* exactly when the attempt reports perp filled > 0 and spot filled = 0; the
\* repair starts with target_size equal to the perp filled size, and the machine
\* is Repairing afterwards unless the repair order of the same cycle completed it.
C4_RepairStartsOnPerpOnlyFill ==
    [][(Idle /\ IsSome(res'))
        => LET r == Get(res')
               perp_only == r.perp_filled_sz > 0 /\ r.spot_filled_sz = 0
           IN /\ Logged(events', "hedge_repair_started") <=> perp_only
              /\ perp_only => /\ Ev("hedge_repair_started", r.perp_filled_sz) \in
                                    {events'[i] : i \in 1..Len(events')}
                              /\ ep'.T = r.perp_filled_sz
                              /\ runner'.repair_target_sz = r.perp_filled_sz - ep'.filled
                              /\ runner'.repair_active <=>
                                    ~Logged(events', "hedge_repair_completed")
                              /\ runner'.repair_active =>
                                    /\ runner'.repair_side = "BUY_SPOT"
                                    /\ runner'.repair_start_ts = now'
              /\ ~perp_only => ~runner'.repair_active]_vars

C4_Witness ==
    /\ IsSome(res) /\ Get(res).perp_filled_sz > 0 /\ Get(res).spot_filled_sz = 0
    /\ Repairing /\ runner.repair_target_sz = Get(res).perp_filled_sz
    /\ runner.repair_start_ts = now
    /\ ep.T = Get(res).perp_filled_sz /\ ep.filled = 0 /\ ep.start = now

\* C5: fills of repair orders that sum to the target T taken on leaving Idle
\* bring the machine back to Idle with target_size 0; while Repairing, target_size
\* is T less what has been filled, and it is never below 0.
C5_FillsDriveRepairToIdle ==
    ep.T > 0 =>
        /\ runner.repair_target_sz >= 0
        /\ Repairing => runner.repair_target_sz = ep.T - ep.filled
        /\ ep.filled >= ep.T => (Idle /\ runner.repair_target_sz = 0)

\* C6: a repair whose orders never fill, once the timeout has elapsed and the
\* loop keeps cycling, ends with the machine back in Idle.
C6_TimedOutRepairReturnsToIdle ==
    (Repairing /\ ep.filled = 0 /\ RepairTimeoutElapsed) ~> Idle

\* C7: a cycle that starts in Repairing places no entry order (no entry spot
\* BUY, no entry perp SELL).
C7_NoEntryWhileRepairing ==
    [][Repairing => ~EntryOrderPlaced(calls')]_vars

(***************************************************************************)
(* Properties of NotionalLimiter (SpecLimiter).                            *)
(***************************************************************************)
\* C8: after any sequence of apply calls, admitted or refused, with positive or
\* negative deltas, every per-symbol total is non-negative and at most
\* per_symbol_cap, and the sum over all symbols is at most portfolio_cap.
C8_TotalsWithinCaps ==
    /\ \A s \in DOMAIN symbol_to_notional :
          symbol_to_notional[s] >= 0 /\ symbol_to_notional[s] <= PerSymbolCap
    /\ SumValues(symbol_to_notional) <= PortfolioCap

C8_Witness ==
    /\ lim_last.op = "apply" /\ lim_last.raised /\ lim_last.delta > 0
    /\ DOMAIN symbol_to_notional = LimSymbols
    /\ SumValues(symbol_to_notional) = PortfolioCap
    /\ \E s \in LimSymbols : symbol_to_notional[s] = PerSymbolCap

\* C9: apply signals a capacity error exactly when can_add is false for the same
\* arguments, a refused apply leaves the mapping unchanged, and can_add never
\* changes the mapping.
C9_ApplyRaisesIffCannotAdd ==
    [][/\ lim_last'.op = "apply" =>
            /\ lim_last'.raised
                 <=> ~CanAdd(symbol_to_notional, lim_last'.symbol, lim_last'.delta).ok
            /\ lim_last'.raised => symbol_to_notional' = symbol_to_notional
       /\ lim_last'.op = "can_add" => symbol_to_notional' = symbol_to_notional]_vars

C9_Witness ==
    /\ lim_last.op = "apply" /\ lim_last.raised
    /\ DOMAIN symbol_to_notional = LimSymbols
    /\ lim_last.delta + SumValues(symbol_to_notional) > PortfolioCap
    /\ lim_last.delta + symbol_to_notional[lim_last.symbol] <= PerSymbolCap

(***************************************************************************)
(* Properties of OrderRateLimiter (SpecRate).                              *)
(***************************************************************************)
AdmittedIn(a, b) == {i \in 1..Len(allow_hist) :
                        allow_hist[i].ok /\ a <= allow_hist[i].t /\ allow_hist[i].t <= b}
AdmittedTimesSince(a) ==
    LET adm == SelectSeq(allow_hist, LAMBDA h : h.ok /\ h.t >= a)
    IN [i \in 1..Len(adm) |-> adm[i].t]

\* C10: with allow() called at non-decreasing times, at most max_actions_per_min
\* calls answer true within any window of 60 seconds (ends included); only
\* admitted calls are recorded, so the stored window is exactly the admitted
\* timestamps of the last 60 seconds and never longer than the ceiling.
C10_RateWindowCeiling ==
    /\ \A a \in 0..now : Cardinality(AdmittedIn(a, a + RateWindowS)) <= MaxActionsPerMin
    /\ Len(times) <= MaxActionsPerMin
    /\ allow_hist # << >> => times = AdmittedTimesSince(now - RateWindowS)

C10_Witness ==
    /\ Len(allow_hist) >= 4
    /\ ~allow_hist[3].ok
    /\ allow_hist[1].t + RateWindowS = allow_hist[3].t
    /\ allow_hist[Len(allow_hist)].ok
    /\ Len(times) = MaxActionsPerMin

(***************************************************************************)
(* DrawdownGuard.                                                          *)
(***************************************************************************)
\* The peak over the guard's starting peak and the first i equities fed to it.
RunningPeak(es, i) ==
    LET seen == {NewGuard.peak} \cup {es[j] : j \in 1..i}
    IN CHOOSE m \in seen : \A x \in seen : x <= m

\* Some update among the first k met a drawdown of max_drawdown_usd or more.
BreachedBy(es, k) == \E i \in 1..k : RunningPeak(es, i) - es[i] >= MaxDrawdownUsd

\* C11: the halt is a latch: once halted() is true it stays true after every
\* later update_equity, also one above the prior peak; the peak never decreases.
C11_HaltIsLatch ==
    [][/\ Halted(guard) => Halted(guard')
       /\ guard'.peak >= guard.peak]_vars

\* A halted guard that was then fed an equity above its prior peak.
C11_Witness ==
    /\ Len(equities) >= 2
    /\ BreachedBy(equities, Len(equities) - 1)
    /\ equities[Len(equities)] > RunningPeak(equities, Len(equities) - 1)
    /\ guard.peak = equities[Len(equities)]
    /\ Halted(guard)

\* C12: after any sequence of update_equity calls the guard is halted exactly
\* when some call so far had (running peak including its equity) minus its
\* equity >= max_drawdown_usd: it halts at the first such call and not before.
C12_HaltsAtFirstBreach == Halted(guard) <=> BreachedBy(equities, Len(equities))

\* The scenario 1000, 960, 949 against 50 in small: not halted one short of the
\* limit, halted once the drawdown reaches it.
C12_Witness ==
    /\ Len(equities) = 3
    /\ equities[1] = MaxEquity
    /\ equities[1] - equities[2] = MaxDrawdownUsd - 1
    /\ equities[1] - equities[3] >= MaxDrawdownUsd
    /\ ~BreachedBy(equities, 2)
    /\ Halted(guard)

(***************************************************************************)
(* The exposure ledger (Spec): sz_spot / cost_spot_usd and sz_perp /       *)
(* cost_perp_usd against the fills the venues reported.                    *)
(***************************************************************************)
\* C16: in every reachable state, for each leg, local size = 0 implies local
\* cost basis = 0, after any entry fills, repair fills, closes and venue syncs.
C16_ZeroSizeZeroCost ==
    /\ runner.sz_spot = 0 => runner.cost_spot_usd = 0
    /\ runner.sz_perp = 0 => runner.cost_perp_usd = 0

RunEnded == run.pc \in {"returned", "raised"}
ShutdownStages == {"cancel_all", "close_perp", "close_spot", "await_flatten"}

\* C13: an exception raised inside a cycle is caught at the loop boundary and
\* the loop goes on to the next cycle; an exception never ends the loop.
C13_LoopSurvivesException == run.last = "step_raised" => run.pc = "loop"

\* C14: once a stop is requested no new cycle starts, and whenever the loop
\* has ended, after a stop request or for any other reason, the shutdown
\* sequence (cancel all, close perp, close spot, bounded flatten wait) was
\* executed.
C14_StopThenShutdownSequence ==
    [][/\ run.stop => run'.last # "step"
       /\ RunEnded' => ShutdownStages \subseteq run'.stages]_vars

\* C15: every execution of the shutdown emits the final summary, whether or
\* not the flatten wait succeeded and whatever the gateways answered.
C15_ShutdownEmitsSummary == RunEnded => Logged(events, "shutdown_summary")

(***************************************************************************)
(* Properties of the control loop's branches (Spec).                       *)
(***************************************************************************)
RateAtOrAboveEnter(f) == f.kind = "rate" /\ f.val >= EnterThresholdApr
CooldownElapsed(ts, t) == ts = 0 \/ t - ts >= EnterExitCooldownS

\* C21: a cycle places an entry order only if the rate is at or above
\* enter_threshold_apr, there is no exposure on either leg when the cycle
\* starts, and the post-flatten and post-exit cooldowns have elapsed; an
\* entry that left exposure is not followed by another entry before an exit.
C21_NoEntryOnExposure ==
    [][EntryOrderPlaced(calls')
        => /\ RateAtOrAboveEnter(inp'.funding)
           /\ ~HasExposure(Start)
           /\ CooldownElapsed(runner.last_flat_ts, now')
           /\ CooldownElapsed(runner.last_exit_ts, now')]_vars

\* The entry attempt of the cycle: its perp leg was answered with an error
\* after its spot leg had filled.
PerpErrorAfterSpotFill(result) ==
    /\ Len(result.orders) = 2
    /\ result.orders[2].kind = "error"
    /\ result.spot_filled_sz > 0

\* C22: when the perp leg errors and the spot leg has already filled, the
\* asymmetric fill is handed to the hedge-repair machine, which leaves Idle in
\* that cycle.
C22_AsymmetricFillHandedToRepair ==
    [][(Idle /\ IsSome(res') /\ PerpErrorAfterSpotFill(Get(res')))
        => /\ Logged(events', "hedge_repair_started")
           /\ Repairing']_vars

(***************************************************************************)
(* The drawdown halt in the loop (SpecDrawdown).                           *)
(***************************************************************************)
DrawdownExceeded == BreachedBy(equities, Len(equities))
ClosesPerp(cs) ==
    \E i \in 1..Len(cs) : /\ cs[i].op = "place_order" /\ cs[i].venue = "perp"
                          /\ cs[i].side = "BUY" /\ cs[i].reduce_only
ClosesSpot(cs) ==
    \E i \in 1..Len(cs) : /\ cs[i].op = "place_order" /\ cs[i].venue = "spot"
                          /\ cs[i].side = "SELL"

\* C23: a cycle that runs once the account's drawdown has reached the limit
\* closes the legs that are held, whatever the funding signal, and places no
\* entry order; the loop keeps cycling.
C23_DrawdownClosesAndBlocksEntry ==
    [][(DrawdownExceeded /\ equities' = equities)
        => /\ exch.short > 0 => ClosesPerp(calls')
           /\ exch.base > 0 => ClosesSpot(calls')
           /\ ~EntryOrderPlaced(calls')]_vars

(***************************************************************************)
(* The EventStore (Spec).  Of the lines a cycle writes, those with kind    *)
(* "fee" and "entry" are the ones passed to StateStore.append_event; the   *)
(* others go to the logger only.                                           *)
(***************************************************************************)
StoredKinds == {"fee", "entry"}
EventStore(es) == SelectSeq(es, LAMBDA e : e.msg \in StoredKinds)
FeeBeforeEntry(es) ==
    \E i, j \in 1..Len(es) : i < j /\ es[i].msg = "fee" /\ es[j].msg = "entry"

\* C24: what a cycle does is in the EventStore: an entry appends an entry
\* event, after a fee event when something filled; an exit appends an exit or
\* close event; repair start, completion and timeout append events too.
C24_TransitionsAreStored ==
    LET stored == EventStore(events)
        others == \E i \in 1..Len(stored) : stored[i].msg \notin {"fee", "entry"}
    IN /\ Logged(events, "entered_position")
            => /\ Logged(stored, "entry")
               /\ (Get(res).spot_filled_usd > 0 \/ Get(res).perp_filled_usd > 0)
                      => FeeBeforeEntry(stored)
       /\ Logged(events, "exit_condition_met") => others
       /\ Logged(events, "hedge_repair_started") => others
       /\ Logged(events, "hedge_repair_completed") => others
       /\ Logged(events, "hedge_unwound") => others

(***************************************************************************)
(* The skipped cycle (Spec).                                               *)
(***************************************************************************)
\* C25: a cycle in which the funding signal is unavailable changes nothing:
\* no order or cancel is sent, and the ledger, the cooldown timestamps, the
\* rate window, the notional budget, the repair state and the venues are as
\* they were; the loop goes on.
C25_UnavailableSignalSkipsCycle ==
    [][inp'.funding.kind # "rate"
        => /\ calls' = << >> /\ events' = << >> /\ res' = None
           /\ runner' = runner
           /\ times' = times
           /\ symbol_to_notional' = symbol_to_notional
           /\ ep' = ep
           /\ exch' = exch]_vars

\* A skipped cycle at a later second, in the middle of a repair with a short held.
C25_Witness ==
    /\ inp.funding.kind = "absent" /\ calls = << >>
    /\ Repairing /\ exch.short > 0
    /\ now > runner.repair_start_ts + HedgeRepairTimeoutS

(***************************************************************************)
(* Properties of _price_for_side (SpecPrice).                              *)
(***************************************************************************)
PriceBook == BestBidAskFromL2(inp.l2)

\* C26: with post_only on and a book with 0 < bid < ask, for every tick > 0
\* and every offset_ticks >= 0 the entry prices do not cross: the BUY price is
\* strictly below the best ask and the SELL price strictly above the best bid.
C26_EntryPricesNeverCross ==
    (IsSome(res) /\ PostOnly /\ 0 < PriceBook.bid /\ PriceBook.bid < PriceBook.ask)
        => /\ Get(res).buy < PriceBook.ask
           /\ Get(res).sell > PriceBook.bid

\* The offset would cross on both sides and the tick is wider than the spread.
C26_Witness ==
    /\ IsSome(res) /\ 0 < PriceBook.bid /\ PriceBook.bid < PriceBook.ask
    /\ inp.tick > PriceBook.ask - PriceBook.bid
    /\ PriceBook.bid + inp.tick * inp.offset_ticks > PriceBook.ask
    /\ PriceBook.ask - inp.tick * inp.offset_ticks < PriceBook.bid
    /\ Get(res).buy = PriceBook.bid /\ Get(res).sell = PriceBook.ask

(***************************************************************************)
(* The repair machine inside the loop (Spec).                              *)
(***************************************************************************)
RepairBuys(cs) ==
    {i \in 1..Len(cs) : /\ cs[i].op = "place_order" /\ cs[i].venue = "spot"
                        /\ cs[i].side = "BUY" /\ ~cs[i].post_only}

\* C27: a cycle that starts in Repairing with the signal available, before the
\* repair timeout has elapsed, drives the repair machine: it submits a spot BUY
\* for the outstanding target, whichever branch the cycle takes and whatever
\* cooldowns, rate limit, open orders or budget say.
C27_EveryCycleDrivesRepair ==
    [][(/\ Repairing
        /\ inp'.funding.kind = "rate"
        /\ now' - runner.repair_start_ts <= HedgeRepairTimeoutS)
        => /\ Logged(events', "spot_repair_attempt")
           /\ RepairBuys(calls') # {}]_vars

\* A cycle that starts in Repairing and ends in Idle without the repair having
\* completed: the episode ended by timeout.
EndsByTimeout == Repairing /\ Idle' /\ ~Logged(events', "hedge_repair_completed")

\* C28: whenever a repair episode ends by timeout the perp short it left open
\* is zero on the venue afterwards, and the unwind is logged.
C28_TimeoutResolvesToFlat ==
    [][EndsByTimeout => /\ exch'.short = 0
                        /\ Logged(events', "hedge_unwound")]_vars

\* C29: within one repair episode the time in force of the repair BUYs only
\* escalates: an attempt made before the episode's age exceeds the stage
\* duration uses the configured default, an attempt after it the
\* immediate-or-cancel repair TIF, and no attempt uses the default once an
\* attempt of the episode was escalated.
C29_RepairTifEscalates ==
    [][\A i \in RepairBuys(calls') :
          LET age == now' - ep'.start
          IN /\ age < HedgeRepairStageS => calls'[i].tif = CfgTif
             /\ age > HedgeRepairStageS => calls'[i].tif = HedgeRepairTif
             /\ (Repairing /\ ep.escalated) => calls'[i].tif = HedgeRepairTif]_vars

(***************************************************************************)
(* The enter/exit cooldown (Spec).  last_entry_ts and last_exit_ts are the *)
(* times of the last enter action and of the last exit action.             *)
(***************************************************************************)
EnterAction == EntryOrderPlaced(calls') /\ IsSome(res') /\ Get(res').entered
ExitAction == Logged(events', "exit_condition_met")

\* C30: after an enter action or an exit action at time t the loop performs
\* no enter action and no exit action before t + enter_exit_cooldown_s.
C30_CooldownIsSymmetric ==
    [][(EnterAction \/ ExitAction)
        => /\ CooldownElapsed(runner.last_entry_ts, now')
           /\ CooldownElapsed(runner.last_exit_ts, now')]_vars

(***************************************************************************)
(* The exit branch (Spec).                                                 *)
(***************************************************************************)
RateAtOrBelowExit(f) == f.kind = "rate" /\ f.val <= ExitThresholdApr
CancelIdx(cs, venue) ==
    {i \in 1..Len(cs) : cs[i].op = "cancel_order" /\ cs[i].venue = venue}
PlaceIdx(cs, venue) ==
    {i \in 1..Len(cs) : cs[i].op = "place_order" /\ cs[i].venue = venue}
CancelledOids(cs, venue) == {cs[i].oid : i \in CancelIdx(cs, venue)}

C32_HaltBlocksEntry ==
    [][(Halted(guard) /\ equities' = equities)
        => /\ ~EntryOrderPlaced(calls')
           /\ res' = None
           /\ times' = times]_vars

\* A cycle at the enter threshold, past the cooldowns, refused by the halted guard.
C32_Witness ==
    /\ Halted(guard) /\ RateAtOrAboveEnter(inp.funding)
    /\ Logged(events, "guard_halted")
    /\ times = << >>

(***************************************************************************)
(* Properties of the alignment step (SpecAlign).                           *)
(***************************************************************************)
Aligned == IsSome(res)
PerpLegChanged == runner.sz_perp # inp.sz_perp \/ runner.cost_perp_usd # inp.cost_perp_usd
SpotLegChanged == runner.sz_spot # inp.sz_spot \/ runner.cost_spot_usd # inp.cost_spot_usd
ExceedsThreshold(local, venue, step) ==
    IsSome(venue) /\ AbsDiff(local, Get(venue)) > inp.align_min_diff_quanta * step

\* C33: alignment changes a leg's local size or cost basis only when the mode
\* is force and that leg's divergence from the venue's size exceeds
\* min_diff_quanta quanta; in log mode, or below the threshold, the ledger is
\* left as it was.
C33_AlignOnlyAboveThreshold ==
    Aligned =>
        /\ PerpLegChanged => /\ inp.align_mode = "force"
                             /\ ExceedsThreshold(inp.sz_perp, inp.venue_perp_abs, PerpSizeStep)
        /\ SpotLegChanged => /\ inp.align_mode = "force"
                             /\ ExceedsThreshold(inp.sz_spot, inp.base_actual, SpotSizeStep)

(***************************************************************************)
(* The flatten wait (SpecRun).                                             *)
(***************************************************************************)
WaitEnds == run.pc = "flatten" /\ run'.pc = "summary"
VenueFlat ==
    /\ exch.short <= PerpSizeStep /\ exch.base <= SpotSizeStep
    /\ exch.spot_opens = {} /\ exch.perp_opens = {}

\* C34: the flatten wait ends within its bounded number of polls, and it ends
\* before the deadline only when the venue reports both legs at or below their
\* quantum and no open order on either venue; on that early end the local
\* sizes and cost bases of both legs are zero.
C34_FlattenWaitEndsFlatOrLate ==
    [][/\ run'.polls <= FlattenPolls
       /\ (WaitEnds /\ run'.polls < FlattenPolls)
            => /\ VenueFlat
               /\ runner'.sz_perp = 0 /\ runner'.sz_spot = 0
               /\ runner'.cost_perp_usd = 0 /\ runner'.cost_spot_usd = 0]_vars

(***************************************************************************)
(* The ledger against the venues (Spec).  In the model a venue's position  *)
(* moves only by the fills it reports to the loop's own orders.            *)
(***************************************************************************)
\* C35: whenever orders of a cycle (entry legs, repair BUY, timeout unwind,
\* closes) are answered with fills on a leg, that leg's local size changes by
\* the filled amount in the same cycle, also when the entry attempt reports
\* entered = false.
C35_LedgerFollowsFills ==
    [][/\ exch'.base # exch.base
            => runner'.sz_spot - runner.sz_spot = exch'.base - exch.base
       /\ exch'.short # exch.short
            => runner'.sz_perp - runner.sz_perp = exch'.short - exch.short]_vars


\* C36: the limiter's notional for the traded symbol is the notional in use:
\* an exit that leaves both legs at size zero (ledger and venue) leaves the
\* limiter's entry for the symbol at zero.
BothLegsFlat(r, v) == r.sz_spot = 0 /\ r.sz_perp = 0 /\ v.base = 0 /\ v.short = 0
C36_BudgetReleasedOnExit ==
    [][ExitAction /\ ~BothLegsFlat(runner, exch) /\ BothLegsFlat(runner', exch')
         => DictGet(symbol_to_notional', PerpSymbol, 0) = 0]_vars

\* C37: the cumulative filled entry notional of either leg never exceeds the
\* configured target notional.
C37_CumulativeWithinTarget ==
    Max(runner.cum_spot_usd, runner.cum_perp_usd) <= TargetUsdNotional


\* C38: every perp BUY the controller sends is reduce-only, every perp order
\* that is not reduce-only is the SELL of the entry protocol, and the venue's
\* perp position is never long.
C38_PerpBuysAreReduceOnly ==
    /\ \A i \in PlaceIdx(calls, "perp") :
          /\ calls[i].side = "BUY" => calls[i].reduce_only
          /\ ~calls[i].reduce_only
               => calls[i] = PerpEntryOrder(calls[i].qty, calls[i].px)
    /\ exch.short >= 0
C38_Witness ==
    /\ runner.cum_perp_usd > 0
    /\ \E i \in PlaceIdx(calls, "perp") : calls[i].side = "BUY" /\ calls[i].reduce_only


\* A cycle that starts and ends in Repairing without the episode having ended
\* in between: the repair neither completed nor timed out in this cycle.
SameEpisode ==
    /\ Repairing /\ Repairing'
    /\ ~Logged(events', "hedge_repair_completed")
    /\ now' - runner.repair_start_ts <= HedgeRepairTimeoutS

\* C39: within one repair episode the episode start time is never changed and
\* target_size never increases.
C39_EpisodeStartAndTargetFixed ==
    [][SameEpisode => /\ runner'.repair_start_ts = runner.repair_start_ts
                      /\ runner'.repair_target_sz <= runner.repair_target_sz]_vars


\* C40: no entry attempt is started in a cycle that begins with an open order
\* on either venue; an entry is attempted only when both venues' open-order
\* lists are empty.
C40_NoEntryWithOpenOrders ==
    [][EntryOrderPlaced(calls') => exch.spot_opens = {} /\ exch.perp_opens = {}]_vars

====
